---- MODULE Spec2Model ----
(***************************************************************************)
(* Model of RealignerStepImpl (src/src/realigner_step.cpp): the window     *)
(* loader (extendRegion, loadAlignments, loadReference) and the pileup     *)
(* construction of buildFragmentStore (CIGAR ingestion, reference gap      *)
(* table, gap projection into reads, gap insertion into the contig).       *)
(*                                                                         *)
(* Conventions.                                                            *)
(*  - Ids (read ids, alignment ids) are 0-based as in the code; TLA+       *)
(*    sequences are 1-based, so store[id] of the code is seq[id + 1].      *)
(*  - A Gaps object (seqan::Gaps over a sequence of n symbols) is the      *)
(*    sequence of its view: 0 is a gap symbol, k > 0 is the k-th source    *)
(*    symbol.  View positions are 0-based offsets into that sequence.      *)
(*  - The unsigned 32 bit fields of seqan::GenomicRegion are held as the   *)
(*    signed integer with the same 32 bit pattern: a negative number x     *)
(*    stands for the unsigned value 2^32 + x.  Wrapping subtraction and    *)
(*    the casts (int)x / (unsigned)x are then the identity on patterns,    *)
(*    unsigned comparison is ULess below.                                  *)
(***************************************************************************)
EXTENDS Integers, Sequences, FiniteSets, TLC

VARIABLES
    options,         \* BamRealignerOptions: [windowRadius]
    request,         \* the region handed to the constructor
    bam,             \* the records of the alignment file, in file order
    io,              \* how the alignment source answers: "ok", "unknownRef", "jumpFail"
    region,          \* RealignerStepImpl::region [rID, beginPos, endPos]
    records,         \* RealignerStepImpl::records
    filePos,         \* read position of bamFileIn (0-based record index)
    hasAlignments,   \* the flag set by jumpToRegion
    ref,             \* RealignerStepImpl::ref
    refLoads,        \* number of readRegion calls so far
    store,           \* the FragmentStore
    readInsertions,  \* local of buildFragmentStore
    refGaps,         \* local of buildFragmentStore
    intervals,       \* local of buildFragmentStore
    todo,            \* keys of refGaps the running reverse iteration has not visited
    recNo,           \* index of the next record of the ingestion loop
    pc

vars == <<options, request, bam, io, region, records, filePos,
          hasAlignments, ref, refLoads, store, readInsertions, refGaps,
          intervals, todo, recNo, pc>>

\* ------------------------------------------------------------------------
\* Bounds of the checked instance
\* ------------------------------------------------------------------------
MaxReads == 2        \* records in the alignment file
MaxBeginPos == 2     \* largest mapping position of a record
MaxRadius == 1       \* largest options.windowRadius

\* seqan::BamAlignmentRecord::INVALID_REFID
INVALID_REFID == -1

\* The one contig of the reference file (its id in the alignment file is 0).
Genome == <<"A", "A", "C", "C", "G", "G">>
ContigId == 0

\* ------------------------------------------------------------------------
\* Arithmetic helpers
\* ------------------------------------------------------------------------
Max(a, b) == IF a >= b THEN a ELSE b
Min(a, b) == IF a <= b THEN a ELSE b

\* Unsigned comparison of two 32 bit patterns.
ULess(a, b) ==
    IF (a < 0) = (b < 0) THEN a < b ELSE b < 0

\* std::max(0u, x) on unsigned operands (line 79)
UMax(a, b) == IF ULess(a, b) THEN b ELSE a

Op(o, n) == [operation |-> o, count |-> n]

\* ------------------------------------------------------------------------
\* seqan::Gaps
\* ------------------------------------------------------------------------
RECURSIVE GapRun(_)
GapRun(n) == IF n <= 0 THEN <<>> ELSE <<0>> \o GapRun(n - 1)

\* The ungapped view of a sequence of n symbols.
RECURSIVE Ungapped(_)
Ungapped(n) == IF n <= 0 THEN <<>> ELSE Ungapped(n - 1) \o <<n>>

\* Source symbols of a view, in order (gap symbols removed).
RECURSIVE SourceOf(_)
SourceOf(g) ==
    IF g = <<>> THEN <<>>
    ELSE IF Head(g) = 0 THEN SourceOf(Tail(g))
    ELSE <<Head(g)>> \o SourceOf(Tail(g))

\* The view written with the symbols of seq and "-" for a gap.
Render(g, seq) ==
    [i \in 1..Len(g) |-> IF g[i] = 0 THEN "-" ELSE seq[g[i]]]

\* Number of gap symbols directly in front of source symbol k of the view.
RECURSIVE GapsBefore(_, _)
GapsBefore(g, i) ==
    IF i < 1 THEN 0
    ELSE IF g[i] # 0 THEN 0
    ELSE 1 + GapsBefore(g, i - 1)

ViewIndexOf(g, k) == CHOOSE i \in 1..Len(g) : g[i] = k

\* insertGaps(gaps, viewPos, count): count gap symbols in front of the symbol
\* at view position viewPos.  Gap symbols behind the last symbol of the view
\* are not kept (trailing gaps are ignored), so a position that is not
\* inside the view leaves the view as it is.
InsertGaps(g, viewPos, count) ==
    IF count <= 0 THEN g
    ELSE IF viewPos >= 0 /\ viewPos < Len(g)
         THEN SubSeq(g, 1, viewPos) \o GapRun(count) \o SubSeq(g, viewPos + 1, Len(g))
    ELSE g

\* toSourcePosition(gaps, viewPos): source symbols in front of the view position.
ToSourcePosition(g, viewPos) ==
    Cardinality({i \in 1..Len(g) : i <= viewPos /\ g[i] # 0})

\* toViewPosition(gaps, sourcePos): view position of the source symbol, the
\* end of the view for a source position behind the last symbol.
ToViewPosition(g, sourcePos) ==
    IF \E i \in 1..Len(g) : g[i] = sourcePos + 1
    THEN ViewIndexOf(g, sourcePos + 1) - 1
    ELSE Len(g)

\* ------------------------------------------------------------------------
\* CIGAR helpers (seqan/bam_io)
\* ------------------------------------------------------------------------
\* getAlignmentLengthInRef(record)
RECURSIVE AlignmentLengthInRef(_)
AlignmentLengthInRef(cigar) ==
    IF cigar = <<>> THEN 0
    ELSE (IF Head(cigar).operation \in {"M", "D", "N", "=", "X"}
          THEN Head(cigar).count ELSE 0) + AlignmentLengthInRef(Tail(cigar))

\* cigarToGapAnchorRead(cigar, gaps): writes the deletions of the CIGAR as
\* gaps into the read and returns the number of gap symbols in front of the
\* first read symbol.  st = [gaps, it, atBegin, beginGaps].
RECURSIVE CigarToGapAnchorReadFrom(_, _)
CigarToGapAnchorReadFrom(cigar, st) ==
    IF cigar = <<>> THEN st
    ELSE LET c == Head(cigar) IN
         CigarToGapAnchorReadFrom(Tail(cigar),
            IF c.operation \in {"D", "N", "P"}
            THEN [gaps |-> InsertGaps(st.gaps, st.it, c.count),
                  it |-> st.it + c.count,
                  atBegin |-> FALSE,
                  beginGaps |-> st.beginGaps + (IF st.atBegin THEN c.count ELSE 0)]
            ELSE IF c.operation \in {"I", "M", "S"}
            THEN [st EXCEPT !.it = st.it + c.count, !.atBegin = FALSE]
            ELSE st)

CigarToGapAnchorRead(cigar, readLen) ==
    CigarToGapAnchorReadFrom(cigar,
        [gaps |-> Ungapped(readLen), it |-> 0, atBegin |-> TRUE, beginGaps |-> 0])

\* ------------------------------------------------------------------------
\* Inputs: alignment files over the one contig
\* ------------------------------------------------------------------------
\* The bases of a record: an aligned base repeats the reference base it is
\* aligned to, an inserted (or clipped) base is a "T".
RECURSIVE RecordSeq(_, _)
RecordSeq(pos, cigar) ==
    IF cigar = <<>> THEN <<>>
    ELSE LET c == Head(cigar) IN
         IF c.operation \in {"M", "=", "X"}
         THEN [i \in 1..c.count |->
                   IF pos + i <= Len(Genome) THEN Genome[pos + i] ELSE "N"]
              \o RecordSeq(pos + c.count, Tail(cigar))
         ELSE IF c.operation \in {"I", "S"}
         THEN [i \in 1..c.count |-> "T"] \o RecordSeq(pos, Tail(cigar))
         ELSE IF c.operation \in {"D", "N"}
         THEN RecordSeq(pos + c.count, Tail(cigar))
         ELSE RecordSeq(pos, Tail(cigar))

\* CIGAR strings of the mapped records of the instance.
Cigars ==
    { <<Op("M", 4)>>,                                      \* read B of the worked example
      <<Op("M", 2), Op("I", 1), Op("M", 2)>>,              \* read A of the worked example
      <<Op("M", 1), Op("I", 2), Op("M", 2)>>,              \* insertion in front of later columns
      <<Op("M", 4), Op("I", 1), Op("M", 1)>>,
      <<Op("M", 1), Op("D", 1), Op("M", 1), Op("I", 1), Op("M", 1)>>,
      <<Op("I", 1)>>,                                      \* starts with and consists only of an insertion
      <<Op("P", 2), Op("M", 1)>> }                         \* starts with padding

MappedRecord(pos, cigar) ==
    [rID |-> ContigId, beginPos |-> pos, cigar |-> cigar, unmapped |-> FALSE,
     seq |-> RecordSeq(pos, cigar)]

\* An unmapped read that is placed at the position of its mate.
PlacedUnmapped(pos) ==
    [rID |-> ContigId, beginPos |-> pos, cigar |-> <<>>, unmapped |-> TRUE,
     seq |-> <<"T">>]

\* An unmapped read without a position: the tail of a sorted file.
Unplaced ==
    [rID |-> INVALID_REFID, beginPos |-> -1, cigar |-> <<>>, unmapped |-> TRUE,
     seq |-> <<"T">>]

PlacedRecords ==
    { MappedRecord(pos, c) : pos \in 0..MaxBeginPos, c \in Cigars }
    \cup { PlacedUnmapped(pos) : pos \in 0..MaxBeginPos }

FittingRecords ==
    { r \in PlacedRecords : r.beginPos + AlignmentLengthInRef(r.cigar) <= Len(Genome) }

\* Coordinate sorted files: placed records by position, then unplaced ones.
SortedByPos(f) == \A i \in 1..Len(f) - 1 : f[i].beginPos <= f[i + 1].beginPos

PlacedFiles ==
    { f \in UNION { [1..n -> FittingRecords] : n \in 0..MaxReads } : SortedByPos(f) }

Files == PlacedFiles \cup { f \o <<Unplaced>> : f \in PlacedFiles }

\* Regions of the intervals file.
Requests ==
    { [rID |-> ContigId, beginPos |-> 0, endPos |-> 6],
      [rID |-> ContigId, beginPos |-> 2, endPos |-> 4] }

EmptyStore ==
    [contigSeq |-> <<>>, contigGaps |-> <<>>, readSeqStore |-> <<>>,
     alignedReadStore |-> <<>>]

\* A function with an empty domain: an empty std::map.
EmptyMap == [k \in {} |-> 0]

Init ==
    /\ options \in [windowRadius : 0..MaxRadius]
    /\ request \in Requests
    /\ bam \in Files
    /\ io \in {"ok", "unknownRef", "jumpFail"}
    /\ io # "ok" => (Len(bam) = 0 /\ options.windowRadius = 0)
    \* a radius that reaches over the begin of the region is run on files
    \* without mapped reads
    /\ options.windowRadius > request.beginPos =>
           \A i \in 1..Len(bam) : bam[i].unmapped
    /\ region = request
    /\ records = <<>>
    /\ filePos = 0
    /\ hasAlignments = FALSE
    /\ ref = <<>>
    /\ refLoads = 0
    /\ store = EmptyStore
    /\ readInsertions = <<>>
    /\ refGaps = EmptyMap
    /\ intervals = <<>>
    /\ todo = {}
    /\ recNo = 0
    /\ pc = "construct"

\* ------------------------------------------------------------------------
\* Window loader
\* ------------------------------------------------------------------------
\* extendRegion(): lines 76-81
ExtendRegionByRadius(r, radius) ==
    [r EXCEPT !.beginPos = UMax(0, r.beginPos - radius),
              !.endPos = r.endPos + radius]

\* extendRegion(record): lines 83-89
ExtendRegionByRecord(r, record) ==
    IF record.rID # r.rID THEN r
    ELSE [r EXCEPT !.beginPos = Min(r.beginPos, record.beginPos),
                   !.endPos = Max(r.endPos,
                                  record.beginPos + AlignmentLengthInRef(record.cigar))]

\* readRegion(ref, faiIndex, region): the bases of [beginPos, endPos), both
\* limits cut to the length of the contig as unsigned numbers.
ReadRegion(r) ==
    LET n == Len(Genome)
        b == IF ULess(n, r.beginPos) THEN n ELSE r.beginPos
        e0 == IF ULess(r.endPos, b) THEN b ELSE r.endPos
        e == IF ULess(n, e0) THEN n ELSE e0
    IN  SubSeq(Genome, b + 1, e)

\* The constructor: lines 61-69
Construct ==
    /\ pc = "construct"
    /\ region' = ExtendRegionByRadius(region, options.windowRadius)
    /\ pc' = "loadAlignments"
    /\ UNCHANGED <<options, request, bam, io, records, filePos,
                   hasAlignments, ref, refLoads, store, readInsertions,
                   refGaps, intervals, todo, recNo>>

\* A record of the file overlaps the window [b, e).
OverlapsWindow(record, r) ==
    /\ record.rID = r.rID
    /\ record.beginPos < r.endPos
    /\ r.beginPos < record.beginPos + Max(1, AlignmentLengthInRef(record.cigar))

\* jumpToRegion: the file positions the index may seek to (a record of the
\* contig with no overlapping record in front of it).
JumpTargets(r) ==
    { j \in 1..Len(bam) :
        /\ bam[j].rID = r.rID
        /\ \A k \in 1..(j - 1) : ~OverlapsWindow(bam[k], r) }

\* Variant of lines 141-149 without the return: the loop starts anyway.
LoadAlignmentsJump_NoReturn ==
    /\ pc = "loadAlignments"
    /\ io = "ok"
    /\ \/ /\ \A j \in 1..Len(bam) : ~OverlapsWindow(bam[j], region)
          /\ hasAlignments' = FALSE
          /\ UNCHANGED filePos
          /\ pc' = "readRecord"
       \/ /\ \E j \in JumpTargets(region) :
                filePos' = j - 1
          /\ hasAlignments' = TRUE
          /\ pc' = "readRecord"
    /\ UNCHANGED <<options, request, bam, io, region, records, ref,
                   refLoads, store, readInsertions, refGaps, intervals, todo, recNo>>

\* loadAlignments up to the seek: lines 125-149
LoadAlignmentsJump ==
    /\ pc = "loadAlignments"
    /\ \/ /\ io = "unknownRef"             \* getIdByName fails: IOError
          /\ pc' = "failed"
          /\ UNCHANGED <<filePos, hasAlignments>>
       \/ /\ io = "jumpFail"               \* jumpToRegion fails: IOError
          /\ pc' = "failed"
          /\ UNCHANGED <<filePos, hasAlignments>>
       \/ /\ io = "ok"
          /\ \/ /\ \A j \in 1..Len(bam) : ~OverlapsWindow(bam[j], region)
                /\ hasAlignments' = FALSE  \* warning, return
                /\ UNCHANGED filePos
                /\ pc' = "loadReference"
             \/ /\ \E j \in JumpTargets(region) :
                      filePos' = j - 1
                /\ hasAlignments' = TRUE
                /\ pc' = "readRecord"
    /\ UNCHANGED <<options, request, bam, io, region, records, ref,
                   refLoads, store, readInsertions, refGaps, intervals, todo, recNo>>

\* One turn of the loop of loadAlignments: lines 153-162
LoadRecord ==
    /\ pc = "readRecord"
    /\ IF filePos >= Len(bam)
       THEN \* readRecord at the end of the file throws
            /\ pc' = "failed"
            /\ UNCHANGED <<region, records, filePos>>
       ELSE LET record == bam[filePos + 1] IN
            IF record.rID = INVALID_REFID
            THEN /\ pc' = "loadReference"
                 /\ UNCHANGED <<region, records>>
                 /\ filePos' = filePos + 1
            ELSE IF \/ record.rID > region.rID
                    \/ record.rID = region.rID /\ record.beginPos > region.endPos
            THEN /\ pc' = "loadReference"
                 /\ UNCHANGED <<region, records>>
                 /\ filePos' = filePos + 1
            ELSE /\ region' = ExtendRegionByRecord(region, record)
                 /\ records' = Append(records, record)
                 /\ filePos' = filePos + 1
                 /\ pc' = "readRecord"
    /\ UNCHANGED <<options, request, bam, io, hasAlignments, ref,
                   refLoads, store, readInsertions, refGaps, intervals, todo, recNo>>

\* loadReference: lines 116-123
LoadReference ==
    /\ pc = "loadReference"
    /\ ref' = ReadRegion(region)
    /\ refLoads' = refLoads + 1
    /\ pc' = "buildFragmentStore"
    /\ UNCHANGED <<options, request, bam, io, region, records,
                   filePos, hasAlignments, store, readInsertions, refGaps,
                   intervals, todo, recNo>>

\* ------------------------------------------------------------------------
\* buildFragmentStore: ingestion of the records
\* ------------------------------------------------------------------------
\* std::map helpers
MapGet(m, k) == IF k \in DOMAIN m THEN m[k] ELSE 0
MapPut(m, k, v) == [x \in DOMAIN m \cup {k} |-> IF x = k THEN v ELSE m[x]]

\* Lines 180-189: the state of buildFragmentStore before the first record.
\* b = [store, readInsertions, refGaps, intervals]
BuildBegin(refSeq, nRecords) ==
    [store |-> [contigSeq |-> refSeq,
                contigGaps |-> Ungapped(Len(refSeq)),
                readSeqStore |-> <<>>,
                alignedReadStore |-> <<>>],
     readInsertions |-> [i \in 1..nRecords |-> EmptyMap],
     refGaps |-> EmptyMap,
     intervals |-> <<>>]

\* Variant of line 254 that stores the last length instead of the largest.
RefGapsUpdate_Overwrite(gapTable, refPos, count) ==
    MapPut(gapTable, refPos, count)

\* Line 254
RefGapsUpdate(gapTable, refPos, count) ==
    MapPut(gapTable, refPos, Max(MapGet(gapTable, refPos), count))

\* One CIGAR operation of the walk of lines 238-287.
\* w = [refPos, readPos, refGaps, ins]
CigarStep(w, c) ==
    IF c.operation = "D"
    THEN [w EXCEPT !.readPos = w.readPos + c.count]
    ELSE IF c.operation = "I"
    THEN [w EXCEPT !.refGaps = RefGapsUpdate(w.refGaps, w.refPos, c.count),
                   !.ins = MapPut(w.ins, w.refPos, c.count),
                   !.readPos = w.readPos + c.count]
    ELSE IF c.operation \in {"X", "=", "M"}
    THEN [w EXCEPT !.refPos = w.refPos + c.count,
                   !.readPos = w.readPos + c.count]
    ELSE w

RECURSIVE CigarWalk(_, _)
CigarWalk(cigar, w) ==
    IF cigar = <<>> THEN w
    ELSE CigarWalk(Tail(cigar), CigarStep(w, Head(cigar)))

\* The body of the loop of lines 194-291 for one record.
IngestRecord(b, record, regionBegin) ==
    LET readID == Len(b.store.readSeqStore)
        st1 == [b.store EXCEPT !.readSeqStore = Append(@, record.seq)]
    IN  IF record.unmapped THEN [b EXCEPT !.store = st1]
        ELSE
        LET beginPos == record.beginPos - regionBegin
            endPos == beginPos + AlignmentLengthInRef(record.cigar)
            alignmentID == Len(b.store.alignedReadStore)
            cg == CigarToGapAnchorRead(record.cigar, Len(record.seq))
            shifted == beginPos + cg.beginGaps
            w == CigarWalk(record.cigar,
                           [refPos |-> shifted, readPos |-> 0,
                            refGaps |-> b.refGaps,
                            ins |-> b.readInsertions[readID + 1]])
            el == [id |-> alignmentID, readId |-> readID,
                   beginPos |-> shifted, endPos |-> endPos, gaps |-> cg.gaps]
        IN  [b EXCEPT !.store = [st1 EXCEPT !.alignedReadStore = Append(@, el)],
                      !.refGaps = w.refGaps,
                      !.readInsertions = [@ EXCEPT ![readID + 1] = w.ins]]

\* ------------------------------------------------------------------------
\* buildFragmentStore: projection of the insertions
\* ------------------------------------------------------------------------
\* seqan::SortBeginPos / seqan::SortEndPos order by the smaller / larger of
\* the two positions of an aligned read.
BeginKey(el) == Min(el.beginPos, el.endPos)
EndKey(el) == Max(el.beginPos, el.endPos)

SortKey(el, functor) ==
    IF functor = "SortEndPos" THEN EndKey(el) ELSE BeginKey(el)

\* sortAlignedReads(store, functor): a stable sort by the key of the functor.
SortAlignedReads(s, functor) ==
    LET rank(i) == Cardinality({ j \in 1..Len(s) :
                        \/ SortKey(s[j], functor) < SortKey(s[i], functor)
                        \/ SortKey(s[j], functor) = SortKey(s[i], functor) /\ j <= i })
    IN  [k \in 1..Len(s) |-> s[CHOOSE i \in 1..Len(s) : rank(i) = k]]

\* Lines 298-299
SortForProjection(s) ==
    SortAlignedReads(SortAlignedReads(s, "SortEndPos"), "SortBeginPos")

\* Lines 312-315: one interval per aligned read, the cargo is its id.
BuildIntervals(st) ==
    [k \in 1..Len(st.alignedReadStore) |->
        LET el == st.alignedReadStore[k] IN
        [i1 |-> ToSourcePosition(st.contigGaps, el.beginPos),
         i2 |-> ToSourcePosition(st.contigGaps, el.endPos),
         cargo |-> el.id]]

\* Lines 297-316
SortAndIndex(b) ==
    LET st == [b.store EXCEPT !.alignedReadStore = SortForProjection(@)]
    IN  [b EXCEPT !.store = st, !.intervals = BuildIntervals(st)]

\* findIntervals(tree, qb, qe, results): cargos of the intervals that
\* overlap [qb, qe).
FindIntervals(ivs, qb, qe) ==
    { ivs[k].cargo : k \in { k \in 1..Len(ivs) : ivs[k].i1 < qe /\ qb < ivs[k].i2 } }

\* The element of the aligned read store the loop of line 325 works on for
\* a value of results: store.alignedReadStore[alignmentID] (line 327).
ElementFor(alignmentID) == alignmentID + 1

\* Variant of lines 327-343 that forgets the insertion the read carries.
ProjectInto_NoDelta(el, ins, p, w) ==
    LET viewPos == p - el.beginPos IN
    IF viewPos = 0 \/ viewPos = el.endPos - el.beginPos THEN el
    ELSE [el EXCEPT !.gaps = InsertGaps(el.gaps, viewPos, w)]

\* Lines 327-343 for one element.
ProjectInto(el, ins, p, w) ==
    LET viewPos == p - el.beginPos IN
    IF viewPos = 0 \/ viewPos = el.endPos - el.beginPos THEN el
    ELSE LET delta == IF p \in DOMAIN ins THEN ins[p] ELSE 0
         IN  [el EXCEPT !.gaps = InsertGaps(el.gaps, viewPos, w - delta)]

\* lowerBoundAlignedReads(store, pos, SortBeginPos): std::lower_bound, the
\* bisection over [first, first + len).
RECURSIVE LowerBoundFrom(_, _, _, _)
LowerBoundFrom(s, pos, first, len) ==
    IF len <= 0 THEN first
    ELSE LET half == len \div 2
             mid == first + half
         IN  IF BeginKey(s[mid + 1]) < pos
             THEN LowerBoundFrom(s, pos, mid + 1, len - half - 1)
             ELSE LowerBoundFrom(s, pos, first, half)

LowerBoundAlignedReads(s, pos) == LowerBoundFrom(s, pos, 0, Len(s))

\* Lines 347-355
ShiftFrom(s, first, w) ==
    [k \in 1..Len(s) |->
        IF k - 1 >= first
        THEN [s[k] EXCEPT !.beginPos = @ + w, !.endPos = @ + w]
        ELSE s[k]]

\* One turn of the loop of lines 320-356 for the column (p, w).
ProjectColumn(b, p, w) ==
    LET results == FindIntervals(b.intervals, p, p + 1)
        hit == { ElementFor(id) : id \in results }
        s1 == [k \in 1..Len(b.store.alignedReadStore) |->
                 LET el == b.store.alignedReadStore[k] IN
                 IF k \in hit
                 THEN ProjectInto(el, b.readInsertions[el.readId + 1], p, w)
                 ELSE el]
        first == LowerBoundAlignedReads(s1, ToViewPosition(b.store.contigGaps, p))
    IN  [b EXCEPT !.store.alignedReadStore = ShiftFrom(s1, first, w)]

\* Line 364 for the column (p, w).
InsertContigGaps(b, p, w) ==
    [b EXCEPT !.store.contigGaps = InsertGaps(@, p, w)]

MinOf(S) == CHOOSE x \in S : \A y \in S : x <= y
MaxOf(S) == CHOOSE x \in S : \A y \in S : y <= x

\* ------------------------------------------------------------------------
\* buildFragmentStore as steps of the program
\* ------------------------------------------------------------------------
Build == [store |-> store, readInsertions |-> readInsertions,
          refGaps |-> refGaps, intervals |-> intervals]

SetBuild(b) ==
    /\ store' = b.store
    /\ readInsertions' = b.readInsertions
    /\ refGaps' = b.refGaps
    /\ intervals' = b.intervals

BuildStart ==
    /\ pc = "buildFragmentStore"
    /\ SetBuild(BuildBegin(ref, Len(records)))
    /\ recNo' = 0
    /\ pc' = "ingest"
    /\ UNCHANGED <<options, request, bam, io, region, records,
                   filePos, hasAlignments, ref, refLoads, todo>>

Ingest ==
    /\ pc = "ingest"
    /\ recNo < Len(records)
    /\ SetBuild(IngestRecord(Build, records[recNo + 1], region.beginPos))
    /\ recNo' = recNo + 1
    /\ UNCHANGED <<options, request, bam, io, region, records,
                   filePos, hasAlignments, ref, refLoads, todo, pc>>

SortStep ==
    /\ pc = "ingest"
    /\ recNo >= Len(records)
    /\ SetBuild(SortAndIndex(Build))
    /\ todo' = DOMAIN refGaps
    /\ pc' = "project"
    /\ UNCHANGED <<options, request, bam, io, region, records,
                   filePos, hasAlignments, ref, refLoads, recNo>>

Project ==
    /\ pc = "project"
    /\ todo # {}
    /\ LET p == MaxOf(todo) IN
         /\ SetBuild(ProjectColumn(Build, p, refGaps[p]))
         /\ todo' = todo \ {p}
    /\ UNCHANGED <<options, request, bam, io, region, records,
                   filePos, hasAlignments, ref, refLoads, recNo, pc>>

ProjectDone ==
    /\ pc = "project"
    /\ todo = {}
    /\ todo' = DOMAIN refGaps
    /\ pc' = "contig"
    /\ UNCHANGED <<options, request, bam, io, region, records,
                   filePos, hasAlignments, ref, refLoads, store,
                   readInsertions, refGaps, intervals, recNo>>

\* Variant of lines 359-365 that walks the gap table from the lowest key.
ContigStep_Ascending ==
    /\ pc = "contig"
    /\ todo # {}
    /\ LET p == MinOf(todo) IN
         /\ SetBuild(InsertContigGaps(Build, p, refGaps[p]))
         /\ todo' = todo \ {p}
    /\ UNCHANGED <<options, request, bam, io, region, records,
                   filePos, hasAlignments, ref, refLoads, recNo, pc>>

\* Lines 359-365, one turn of the loop.
ContigStep ==
    /\ pc = "contig"
    /\ todo # {}
    /\ LET p == MaxOf(todo) IN
         /\ SetBuild(InsertContigGaps(Build, p, refGaps[p]))
         /\ todo' = todo \ {p}
    /\ UNCHANGED <<options, request, bam, io, region, records,
                   filePos, hasAlignments, ref, refLoads, recNo, pc>>

Finish ==
    /\ pc = "contig"
    /\ todo = {}
    /\ pc' = "done"
    /\ UNCHANGED <<options, request, bam, io, region, records,
                   filePos, hasAlignments, ref, refLoads, store,
                   readInsertions, refGaps, intervals, todo, recNo>>

Next ==
    \/ Construct
    \/ LoadAlignmentsJump
    \/ LoadRecord
    \/ LoadReference
    \/ BuildStart
    \/ Ingest
    \/ SortStep
    \/ Project
    \/ ProjectDone
    \/ ContigStep
    \/ Finish

Spec == Init /\ [][Next]_vars

\* ------------------------------------------------------------------------
\* buildFragmentStore as a function of its inputs
\* ------------------------------------------------------------------------
RECURSIVE IngestAll(_, _, _)
IngestAll(b, recs, regionBegin) ==
    IF recs = <<>> THEN b
    ELSE IngestAll(IngestRecord(b, Head(recs), regionBegin), Tail(recs), regionBegin)

RECURSIVE ProjectAll(_, _)
ProjectAll(b, keys) ==
    IF keys = {} THEN b
    ELSE LET p == MaxOf(keys)
         IN  ProjectAll(ProjectColumn(b, p, b.refGaps[p]), keys \ {p})

RECURSIVE ContigAll(_, _)
ContigAll(b, keys) ==
    IF keys = {} THEN b
    ELSE LET p == MaxOf(keys)
         IN  ContigAll(InsertContigGaps(b, p, b.refGaps[p]), keys \ {p})

\* Lines 178-376 for the records recs, the window begin and the window bases.
BuildAll(recs, regionBegin, refSeq) ==
    LET b1 == IngestAll(BuildBegin(refSeq, Len(recs)), recs, regionBegin)
        b2 == SortAndIndex(b1)
        b3 == ProjectAll(b2, DOMAIN b2.refGaps)
    IN  ContigAll(b3, DOMAIN b3.refGaps)

Orders(n) ==
    { f \in [1..n -> 1..n] : \A i, j \in 1..n : f[i] = f[j] => i = j }

Permuted(recs, f) == [i \in 1..Len(recs) |-> recs[f[i]]]

\* ------------------------------------------------------------------------
\* Reading the result
\* ------------------------------------------------------------------------
Ingested == pc \in {"project", "contig", "done"}

\* The aligned read of read id readID in an aligned read store.
AlignedReadOf(ars, readID) ==
    ars[CHOOSE k \in 1..Len(ars) : ars[k].readId = readID]

\* The gapped sequence of a read as text.
GappedRead(st, readID) ==
    Render(AlignedReadOf(st.alignedReadStore, readID).gaps, st.readSeqStore[readID + 1])

\* The gapped reference as text.
GappedContig(st) == Render(st.contigGaps, st.contigSeq)

TrailingGaps(g) == GapsBefore(g, Len(g))

\* ------------------------------------------------------------------------
\* Claims
\* ------------------------------------------------------------------------

\* C6: radius extension leaves begin = max(0, b - r) and end = e + r, and
\* begin <= end afterwards (all as unsigned 32 bit numbers).
C6_RadiusExtensionClamps ==
    pc = "loadAlignments" =>
        /\ region.beginPos = Max(0, request.beginPos - options.windowRadius)
        /\ region.endPos = request.endPos + options.windowRadius
        /\ ~ULess(region.endPos, region.beginPos)

NoAlignmentsReported ==
    /\ io = "ok"
    /\ ~hasAlignments
    /\ pc \notin {"construct", "loadAlignments"}

\* C8: when the seek reports no alignments, loadAlignments returns without
\* an error and with no record; the reference is still retrieved and the
\* store built, with no aligned read, an empty gap table and no gap in the
\* reference.
C8_NoAlignmentsContinues ==
    NoAlignmentsReported =>
        /\ pc # "failed"
        /\ records = <<>>
        /\ pc \in {"ingest", "project", "contig", "done"} =>
              /\ refLoads = 1
              /\ store.contigSeq = ref
              /\ store.contigGaps = Ungapped(Len(ref))
              /\ store.alignedReadStore = <<>>
              /\ store.readSeqStore = <<>>
              /\ refGaps = EmptyMap

C8_Witness ==
    /\ NoAlignmentsReported
    /\ pc = "done"
    /\ Len(bam) > 0
    /\ Len(ref) > 0

\* The window-relative begin and end of a record on the reference.
SourceBegin(record) == record.beginPos - region.beginPos
SourceEnd(record) == SourceBegin(record) + AlignmentLengthInRef(record.cigar)

\* The number (from 1) of the base of a read that its CIGAR aligns to the
\* reference position q, 0 if there is none.  refPos is the reference
\* position and readIdx the number of bases in front of the CIGAR.
RECURSIVE BaseAt(_, _, _, _)
BaseAt(cigar, refPos, readIdx, q) ==
    IF cigar = <<>> THEN 0
    ELSE LET c == Head(cigar) IN
         IF c.operation \in {"M", "=", "X"}
         THEN IF refPos <= q /\ q < refPos + c.count
              THEN readIdx + (q - refPos) + 1
              ELSE BaseAt(Tail(cigar), refPos + c.count, readIdx + c.count, q)
         ELSE IF c.operation \in {"I", "S"}
         THEN BaseAt(Tail(cigar), refPos, readIdx + c.count, q)
         ELSE IF c.operation \in {"D", "N"}
         THEN IF refPos <= q /\ q < refPos + c.count THEN 0
              ELSE BaseAt(Tail(cigar), refPos + c.count, readIdx, q)
         ELSE BaseAt(Tail(cigar), refPos, readIdx, q)

\* Symbols of the gapped read between the bases aligned to q - 1 and to q.
WidthAt(el, record, q) ==
    ViewIndexOf(el.gaps, BaseAt(record.cigar, SourceBegin(record), 0, q))
    - ViewIndexOf(el.gaps, BaseAt(record.cigar, SourceBegin(record), 0, q - 1)) - 1

CoversInternally(record, q) ==
    /\ SourceBegin(record) < q
    /\ q < SourceEnd(record)
    /\ BaseAt(record.cigar, SourceBegin(record), 0, q) # 0
    /\ BaseAt(record.cigar, SourceBegin(record), 0, q - 1) # 0

\* C1: after buildFragmentStore, every aligned read that covers a column
\* (p, w) of the gap table internally holds exactly w symbols between its
\* base aligned to p - 1 and its base aligned to p.
C1_ColumnWidthInEveryRead ==
    pc = "done" =>
        \A p \in DOMAIN refGaps :
            \A k \in 1..Len(store.alignedReadStore) :
                LET el == store.alignedReadStore[k]
                    record == records[el.readId + 1]
                IN  CoversInternally(record, p) =>
                        WidthAt(el, record, p) = refGaps[p]

ReadA == MappedRecord(1, <<Op("M", 2), Op("I", 1), Op("M", 2)>>)
ReadB == MappedRecord(1, <<Op("M", 4)>>)

WorkedExample ==
    /\ region.beginPos = 0
    /\ ref = <<"A", "A", "C", "C", "G", "G">>
    /\ records \in {<<ReadA, ReadB>>, <<ReadB, ReadA>>}

\* C2: the worked example (window AACCGG from 0, read A at 1 with 2M1I2M and
\* bases ACTCG, read B at 1 with 4M and bases ACCG) ends with the gap table
\* {3: 1}, the reference AAC-CGG, read A as ACTCG and read B as AC-CG.
C2_WorkedExample ==
    (pc = "done" /\ WorkedExample) =>
        LET idA == (CHOOSE i \in 1..2 : records[i] = ReadA) - 1
            idB == (CHOOSE i \in 1..2 : records[i] = ReadB) - 1
        IN  /\ ReadA.seq = <<"A", "C", "T", "C", "G">>
            /\ ReadB.seq = <<"A", "C", "C", "G">>
            /\ refGaps = (3 :> 1)
            /\ GappedContig(store) = <<"A", "A", "C", "-", "C", "G", "G">>
            /\ GappedRead(store, idA) = <<"A", "C", "T", "C", "G">>
            /\ GappedRead(store, idB) = <<"A", "C", "-", "C", "G">>

C2_Witness == pc = "done" /\ WorkedExample

\* A text without its gap symbols.
RECURSIVE Ungap(_)
Ungap(text) ==
    IF text = <<>> THEN <<>>
    ELSE IF Head(text) = "-" THEN Ungap(Tail(text))
    ELSE <<Head(text)>> \o Ungap(Tail(text))

\* C3: the final gapped reference is the reference window with exactly w
\* gap symbols in front of the base at source position p for every entry
\* (p, w) of the gap table and no other change; without its gap symbols it
\* is the reference window again.
C3_ContigGapsMatchTable ==
    pc = "done" =>
        LET g == store.contigGaps
        IN  /\ store.contigSeq = ref
            /\ Ungap(GappedContig(store)) = ref
            /\ \A p \in 0..(Len(ref) - 1) :
                   GapsBefore(g, ViewIndexOf(g, p + 1) - 1) = MapGet(refGaps, p)
            /\ TrailingGaps(g) = 0

C3_Witness ==
    /\ pc = "done"
    /\ Cardinality(DOMAIN refGaps) >= 2
    /\ \A p \in DOMAIN refGaps : 0 < p /\ p < Len(ref)
    /\ \E p \in DOMAIN refGaps : refGaps[p] >= 2

\* The pairs (key, length) the CIGAR walk of a mapped record records: the
\* key of an insertion is the begin of the aligned read plus the lengths of
\* the aligned operations in front of it.
RECURSIVE AlignedLengthBefore(_, _)
AlignedLengthBefore(cigar, j) ==
    IF j <= 1 THEN 0
    ELSE (IF cigar[j - 1].operation \in {"M", "=", "X"} THEN cigar[j - 1].count ELSE 0)
         + AlignedLengthBefore(cigar, j - 1)

RecordedInsertions(record) ==
    IF record.unmapped THEN {}
    ELSE { <<SourceBegin(record)
               + CigarToGapAnchorRead(record.cigar, Len(record.seq)).beginGaps
               + AlignedLengthBefore(record.cigar, j),
             record.cigar[j].count>> :
           j \in { j \in 1..Len(record.cigar) : record.cigar[j].operation = "I" } }

AllRecordedInsertions == UNION { RecordedInsertions(records[i]) : i \in 1..Len(records) }

C5_OrderIndependentResult ==
    pc = "done" =>
        \A f \in Orders(Len(records)) :
            LET other == BuildAll(Permuted(records, f), region.beginPos, ref)
            IN  /\ GappedContig(other.store) = GappedContig(store)
                /\ \A i \in 1..Len(records) :
                       ~records[f[i]].unmapped =>
                           GappedRead(other.store, i - 1) = GappedRead(store, f[i] - 1)

\* The reference offset in front of operation j of a CIGAR: the lengths of
\* the match/mismatch and deletion operations before it.
RECURSIVE ReferenceLengthBefore(_, _)
ReferenceLengthBefore(cigar, j) ==
    IF j <= 1 THEN 0
    ELSE (IF cigar[j - 1].operation \in {"M", "=", "X", "D"} THEN cigar[j - 1].count ELSE 0)
         + ReferenceLengthBefore(cigar, j - 1)

\* C9: every insertion of length L of a mapped read with begin b is
\* recorded in the gap table and in the insertion table of the read at the
\* key b + (lengths of the preceding match/mismatch and deletion operations).
C9_InsertionKeyCountsDeletions ==
    pc \in {"ingest", "project", "contig", "done"} =>
        \A i \in 1..recNo :
            LET record == records[i] IN
            ~record.unmapped =>
                \A j \in 1..Len(record.cigar) :
                    record.cigar[j].operation = "I" =>
                        LET key == SourceBegin(record) + ReferenceLengthBefore(record.cigar, j)
                        IN  /\ key \in DOMAIN refGaps
                            /\ refGaps[key] >= record.cigar[j].count
                            /\ key \in DOMAIN readInsertions[i]
                            /\ readInsertions[i][key] = record.cigar[j].count

\* C10: while a column (p, w) is processed, the gapped sequence of an
\* aligned read whose span [begin, end) does not cover p gets no gap.
C10_OtherReadsUntouched ==
    [][Project =>
         LET p == MaxOf(todo) IN
         \A k \in 1..Len(store.alignedReadStore) :
             LET el == store.alignedReadStore[k] IN
             ~(el.beginPos <= p /\ p < el.endPos) =>
                 store'.alignedReadStore[k].gaps = el.gaps]_vars

C13_SpanIsGappedLength ==
    pc \in {"contig", "done"} =>
        \A k \in 1..Len(store.alignedReadStore) :
            LET el == store.alignedReadStore[k] IN
            el.endPos - el.beginPos = Len(el.gaps)
====
